---- MODULE Spec2Model ----
\* A model of the ssa-demo scraper: the seen_pdfs store (database.py), the link
\* extractor, the pattern filter and the downloader (main.py), the content
\* hasher (utils.py) and the one-shot pipeline of main.py's __main__ block.
EXTENDS Integers, Sequences, FiniteSets, TLC

\* ---------------------------------------------------------------- bounds

\* add_hash calls (each reads the clock once) a behaviour may make.
MaxClock == 3
\* processes (interpreter starts) a behaviour of the store harness may make.
MaxProcs == 2
\* anchors on a page given to get_pdf_links.
MaxAnchors == 2
\* anchors on the target page in a run of the pipeline.
MaxRunAnchors == 2
\* consecutive runs of the pipeline.
MaxRuns == 2

\* ---------------------------------------------------------------- config.py

\* AppSettings.DB_FILE.value
DB_FILE == "ssa.db"
\* AppSettings.DOWNLOAD_DIR.value
DOWNLOAD_DIR == "pdf_downloads"

\* ---------------------------------------------------------------- the store

\* Database files the environment can name.
DbFiles == {"ssa.db", "other.db"}
\* os.environ.get("ssa.db"): unset, or one of the files.
EnvChoices == {"unset"} \cup DbFiles
\* Digests and urls the store harness calls the store with.
HarnessHashes == {"h1", "h2"}
HarnessUrls == {"u1", "u2"}

VARIABLES
    env,        \* the value of the environment variable named "ssa.db"
    dbs,        \* file name -> [table, rows]: the sqlite files on disk
    now,        \* the UTC clock datetime.now reads
    setup_done, \* setup_database() has returned in the current process
    procs,      \* processes started so far
    call,       \* the last store call: its operation, arguments and outcome
    firstAdd    \* digest -> the url and time of the first completed add_hash


VARIABLES
    lx_in,      \* get_pdf_links' arguments and the response its request gets
    lx_out      \* what the get_pdf_links call gave its caller

storeVars == <<env, dbs, now, setup_done, procs, call, firstAdd>>

VARIABLES
    dl_in,      \* download_pdf's arguments and what its request meets
    dl_out,     \* what the download_pdf call gave its caller
    files       \* save path -> bytes: the files written since the process began


VARIABLES
    pc,             \* the stage of main.py's __main__ block
    pdf_links,      \* main.py: pdf_links
    pdf_72hr_links, \* main.py: pdf_72hr_links
    pdfs_72hrs,     \* main.py: pdfs_72hrs
    idx,            \* position of the fetch comprehension / the store loop
    fetched,        \* the download_pdf calls of this run: url, path and result
    notes,          \* what the store loop did per item: hash, query, insert, log
    rows_at_start   \* the records of ssa.db when the run began

linkVars == <<lx_in, lx_out>>
dlVars == <<dl_in, dl_out>>
runVars == <<pc, pdf_links, pdf_72hr_links, pdfs_72hrs, idx, fetched, notes,
             rows_at_start>>
vars == <<storeVars, linkVars, dlVars, files, runVars>>

\* No get_pdf_links call has been made.
NotCalled == [raised |-> "not called", value |-> <<>>]
NoFile == [table |-> FALSE, rows |-> {}]
NoAdd == [url |-> "none", time |-> -1]
NoCall == [op |-> "none", hash |-> "none", url |-> "none", result |-> "none",
           prior |-> FALSE, before |-> {}]

\* os.environ.get(AppSettings.DB_FILE.value, "ssa.db")
EnvDbFile == IF env = "unset" THEN "ssa.db" ELSE env

\* CREATE TABLE IF NOT EXISTS seen_pdfs (...): keeps an existing table's rows.
CreateTableIfNotExists(db) == [table |-> TRUE, rows |-> db.rows]

\* SELECT 1 FROM seen_pdfs WHERE hash = ? ... fetchone() is not None
SelectHash(db, pdf_hash) == \E r \in db.rows : r.hash = pdf_hash

\* INSERT OR REPLACE: the row of an existing hash is overwritten.
InsertOrReplace(rows, row) == {r \in rows : r.hash # row.hash} \cup {row}

\* INSERT OR IGNORE under the PRIMARY KEY on hash: a row whose hash is present
\* is dropped silently.
InsertOrIgnore(rows, row) ==
    IF \E r \in rows : r.hash = row.hash THEN rows ELSE rows \cup {row}

\* setup_database() that drops the table before creating it.
setup_database_drop(disk) ==
    [disk EXCEPT ![EnvDbFile] = [table |-> TRUE, rows |-> {}]]

\* setup_database(): connects to the file the environment names and creates
\* the table there.
setup_database(disk) ==
    [disk EXCEPT ![EnvDbFile] = CreateTableIfNotExists(disk[EnvDbFile])]

\* hash_exists(pdf_hash): connects to AppSettings.DB_FILE.value; sqlite raises
\* OperationalError (no such table) when the file has no seen_pdfs table.
hash_exists(disk, pdf_hash) ==
    IF ~disk[DB_FILE].table THEN "OperationalError"
    ELSE IF SelectHash(disk[DB_FILE], pdf_hash) THEN "True" ELSE "False"

\* add_hash(pdf_hash, pdf_url): the disk after the call (unchanged when the
\* table is missing and the INSERT raises).
add_hash(disk, pdf_hash, pdf_url, timestamp) ==
    IF ~disk[DB_FILE].table THEN disk
    ELSE [disk EXCEPT ![DB_FILE].rows = InsertOrIgnore(@,
            [hash |-> pdf_hash, source_url |-> pdf_url,
             first_seen_utc |-> timestamp])]

\* What add_hash gives its caller.
add_hash_result(disk) ==
    IF ~disk[DB_FILE].table THEN "OperationalError" ELSE "None"

\* The first completed add_hash of each digest.
NoteFirstAdd(first, disk, pdf_hash, pdf_url, timestamp) ==
    IF disk[DB_FILE].table /\ first[pdf_hash] = NoAdd
    THEN [first EXCEPT ![pdf_hash] = [url |-> pdf_url, time |-> timestamp]]
    ELSE first

\* ------------------------------------------------------- urllib.parse, on
\* urls as sequences of one-character strings

\* str.lower() on the letters the model uses.
Lower(c) ==
    CASE c = "H" -> "h" [] c = "R" -> "r" [] c = "P" -> "p"
      [] c = "D" -> "d" [] c = "F" -> "f" [] OTHER -> c

Letters == {"a", "b", "c", "d", "f", "h", "l", "m", "p", "r", "s", "t", "x",
            "D", "F", "H", "P", "R"}
\* urllib.parse.scheme_chars
SchemeChars == Letters \cup {"7", "2", "+", "-", "."}
\* The schemes of urllib.parse.uses_relative and uses_netloc the model uses.
UsesRelative == {<<>>, <<"h", "t", "t", "p">>}
UsesNetloc == {<<>>, <<"h", "t", "t", "p">>}

\* s[i:] and s[:i] of Python, on 1-based sequences.
From(s, i) == SubSeq(s, i, Len(s))
Upto(s, i) == SubSeq(s, 1, i)

\* str.find for a set of characters: the first index holding one, or 0.
Find(s, cs) ==
    IF \E i \in 1..Len(s) : s[i] \in cs
    THEN CHOOSE i \in 1..Len(s) : s[i] \in cs /\ \A j \in 1..(i - 1) : s[j] \notin cs
    ELSE 0

\* str.endswith
EndsWith(s, suffix) ==
    /\ Len(s) >= Len(suffix)
    /\ SubSeq(s, Len(s) - Len(suffix) + 1, Len(s)) = suffix

\* The element of a one-element set. The({e(x) : x \in {v}}) is e with x
\* standing for the value of v, which is computed once.
The(S) == CHOOSE y \in S : TRUE

\* urlsplit: the scheme, when the text before the first ':' is one.
HasScheme(u) ==
    \E i \in {Find(u, {":"})} :
        /\ i > 1
        /\ u[1] \in Letters
        /\ \A j \in 1..(i - 1) : u[j] \in SchemeChars

\* urlsplit, last step: the query is cut off the path at the first '?'.
\* raises: ValueError("Invalid IPv6 URL"), a netloc with one bracket only.
SplitQuery(scheme, has_netloc, netloc, rest, fragment) ==
    The({ [scheme |-> scheme, netloc |-> netloc,
           path |-> IF q = 0 THEN rest ELSE Upto(rest, q - 1),
           query |-> IF q = 0 THEN <<>> ELSE From(rest, q + 1),
           fragment |-> fragment,
           raises |-> /\ has_netloc
                      /\ ((\E k \in 1..Len(netloc) : netloc[k] = "[")
                           # (\E k \in 1..Len(netloc) : netloc[k] = "]"))]
          : q \in {Find(rest, {"?"})} })

\* urlsplit: the fragment is cut off at the first '#'.
SplitFragment(scheme, has_netloc, netloc, rest) ==
    The({ The({ SplitQuery(scheme, has_netloc, netloc, v.rest, v.fragment)
                : v \in {[rest |-> IF h = 0 THEN rest ELSE Upto(rest, h - 1),
                          fragment |-> IF h = 0 THEN <<>> ELSE From(rest, h + 1)]} })
          : h \in {Find(rest, {"#"})} })

\* urlsplit: a netloc that starts at after runs to the first of '/', '?', '#'
\* (_splitnetloc).
SplitAuthority(scheme, after) ==
    The({ The({ SplitFragment(scheme, TRUE, v.netloc, v.rest)
                : v \in {[netloc |-> IF d = 0 THEN after ELSE Upto(after, d - 1),
                          rest |-> IF d = 0 THEN <<>> ELSE From(after, d)]} })
          : d \in {Find(after, {"/", "?", "#"})} })

\* urlsplit: what follows the scheme has a netloc when it starts with "//".
SplitNetloc(scheme, rest) ==
    IF Len(rest) >= 2 /\ rest[1] = "/" /\ rest[2] = "/"
    THEN The({ SplitAuthority(scheme, after) : after \in {From(rest, 3)} })
    ELSE SplitFragment(scheme, FALSE, <<>>, rest)

\* urlsplit(url, scheme): scheme, netloc, path, query and fragment, and
\* whether the call raises ValueError.
urlsplit(u, default_scheme) ==
    The({ The({ SplitNetloc(v.scheme, v.rest)
                : v \in {[scheme |-> IF i = 0 THEN default_scheme
                                     ELSE [k \in 1..(i - 1) |-> Lower(u[k])],
                          rest |-> From(u, i + 1)]} })
          : i \in {IF HasScheme(u) THEN Find(u, {":"}) ELSE 0} })

\* urlunsplit
urlunsplit(scheme, netloc, path, query, fragment) ==
    (IF scheme # <<>> THEN scheme \o <<":">> ELSE <<>>)
    \o (IF netloc # <<>>
           \/ (scheme # <<>> /\ scheme \in UsesNetloc
               /\ ~(Len(path) >= 2 /\ path[1] = "/" /\ path[2] = "/"))
        THEN <<"/", "/">> \o netloc
             \o (IF path # <<>> /\ path[1] # "/" THEN <<"/">> ELSE <<>>)
        ELSE <<>>)
    \o path
    \o (IF query # <<>> THEN <<"?">> \o query ELSE <<>>)
    \o (IF fragment # <<>> THEN <<"#">> \o fragment ELSE <<>>)

\* str.split('/'): the segments of a path, at least one.
RECURSIVE SplitSlash(_)
SplitSlash(s) ==
    The({ IF i = 0 THEN <<s>>
          ELSE <<Upto(s, i - 1)>>
               \o The({ SplitSlash(t) : t \in {From(s, i + 1)} })
          : i \in {Find(s, {"/"})} })

\* '/'.join(segments)
RECURSIVE JoinSlash(_)
JoinSlash(segs) ==
    IF segs = <<>> THEN <<>>
    ELSE IF Len(segs) = 1 THEN segs[1]
    ELSE segs[1] \o <<"/">> \o The({ JoinSlash(t) : t \in {Tail(segs)} })

\* segments[1:-1] = filter(None, segments[1:-1]): the empty segments between
\* the first and the last are dropped.
DropInnerEmpty(segs) ==
    IF Len(segs) <= 2 THEN segs
    ELSE <<segs[1]>>
         \o SelectSeq(SubSeq(segs, 2, Len(segs) - 1), LAMBDA g : g # <<>>)
         \o <<segs[Len(segs)]>>

\* urljoin's loop over the segments: '..' pops, '.' is skipped.
RECURSIVE ResolveDots(_, _)
ResolveDots(segs, acc) ==
    IF segs = <<>> THEN acc
    ELSE The({ ResolveDots(v.rest, v.acc)
               : v \in {[rest |-> Tail(segs),
                         acc |-> IF Head(segs) = <<".", ".">>
                                 THEN (IF acc = <<>> THEN acc
                                       ELSE Upto(acc, Len(acc) - 1))
                                 ELSE IF Head(segs) = <<".">> THEN acc
                                 ELSE Append(acc, Head(segs))]} })

\* urljoin: the segments of the base path without its last one, then those
\* of the relative path; the segments of an absolute path alone.
JoinSegments(bpath, path) ==
    IF path[1] = "/" THEN SplitSlash(path)
    ELSE The({ The({ DropInnerEmpty(segs)
                     : segs \in {(IF bp[Len(bp)] # <<>>
                                  THEN Upto(bp, Len(bp) - 1) ELSE bp)
                                 \o SplitSlash(path)} })
               : bp \in {SplitSlash(bpath)} })

\* urljoin: the resolved segments joined ('/' when nothing is left); a last
\* segment '.' or '..' leaves a trailing '/'.
JoinResolved(segments, resolved) ==
    The({ IF joined = <<>> THEN <<"/">> ELSE joined
          : joined \in {JoinSlash(
                IF segments[Len(segments)] \in {<<".">>, <<".", ".">>}
                THEN Append(resolved, <<>>) ELSE resolved)} })

\* urljoin: the path of the joined url, for a non-empty relative path.
JoinPath(bpath, path) ==
    The({ The({ JoinResolved(segments, resolved)
                : resolved \in {ResolveDots(segments, <<>>)} })
          : segments \in {JoinSegments(bpath, path)} })

\* urljoin, once both urls are split.
JoinSplit(b, r, u) ==
    IF r.scheme # b.scheme \/ r.scheme \notin UsesRelative THEN u
    ELSE IF r.scheme \in UsesNetloc /\ r.netloc # <<>>
         THEN urlunsplit(r.scheme, r.netloc, r.path, r.query, r.fragment)
    ELSE IF r.path = <<>>
         THEN urlunsplit(r.scheme, b.netloc, b.path,
                         IF r.query = <<>> THEN b.query ELSE r.query,
                         r.fragment)
    ELSE The({ urlunsplit(r.scheme, b.netloc, path, r.query, r.fragment)
               : path \in {JoinPath(b.path, r.path)} })

\* urljoin(base, url), for a url that urlsplit accepts.
urljoin(base, u) ==
    IF base = <<>> THEN u
    ELSE IF u = <<>> THEN base
    ELSE The({ The({ JoinSplit(b, r, u) : r \in {urlsplit(u, b.scheme)} })
               : b \in {urlsplit(base, <<>>)} })

\* The pipeline is not running (the operations are called on their own).
RunIdle ==
    /\ pc = "idle"
    /\ pdf_links = <<>>
    /\ pdf_72hr_links = <<>>
    /\ pdfs_72hrs = <<>>
    /\ idx = 0
    /\ fetched = <<>>
    /\ notes = <<>>
    /\ rows_at_start = {}

\* ------------------------------------------------- the store, called directly

StoreInit ==
    /\ env \in EnvChoices
    /\ dbs = [f \in DbFiles |-> NoFile]
    /\ now = 0
    /\ setup_done = FALSE
    /\ procs = 1
    /\ call = NoCall
    /\ firstAdd = [h \in HarnessHashes |-> NoAdd]

\* A new process starts, with its own environment; the files stay.
StartProcess ==
    /\ procs < MaxProcs
    /\ \E e \in EnvChoices : env' = e
    /\ procs' = procs + 1
    /\ setup_done' = FALSE
    /\ call' = NoCall
    /\ UNCHANGED <<dbs, now, firstAdd, linkVars, dlVars, files, runVars>>

CallSetupDatabase ==
    /\ dbs' = setup_database(dbs)
    /\ setup_done' = TRUE
    /\ call' = [NoCall EXCEPT !.op = "setup_database", !.result = "None",
                              !.before = dbs[DB_FILE].rows]
    /\ UNCHANGED <<env, now, procs, firstAdd, linkVars, dlVars, files, runVars>>

CallHashExists ==
    /\ setup_done
    /\ \E h \in HarnessHashes :
         call' = [NoCall EXCEPT !.op = "hash_exists", !.hash = h,
                                !.result = hash_exists(dbs, h),
                                !.prior = (firstAdd[h] # NoAdd),
                                !.before = dbs[DB_FILE].rows]
    /\ UNCHANGED <<env, dbs, now, setup_done, procs, firstAdd, linkVars, dlVars, files, runVars>>

CallAddHash ==
    /\ setup_done
    /\ now < MaxClock
    /\ \E h \in HarnessHashes, u \in HarnessUrls :
         /\ dbs' = add_hash(dbs, h, u, now)
         /\ firstAdd' = NoteFirstAdd(firstAdd, dbs, h, u, now)
         /\ call' = [NoCall EXCEPT !.op = "add_hash", !.hash = h, !.url = u,
                                   !.result = add_hash_result(dbs),
                                   !.prior = (firstAdd[h] # NoAdd),
                                   !.before = dbs[DB_FILE].rows]
    /\ now' = now + 1
    /\ UNCHANGED <<env, setup_done, procs, linkVars, dlVars, files, runVars>>

StoreNext ==
    \/ StartProcess
    \/ CallSetupDatabase
    \/ CallHashExists
    \/ CallAddHash

StoreHarnessInit ==
    /\ StoreInit
    /\ lx_in = [url |-> <<>>, kwargs |-> {}, response |-> <<>>]
    /\ lx_out = NotCalled
    /\ dl_in = <<>>
    /\ dl_out = NotCalled
    /\ files = {}
    /\ RunIdle

SpecStore == StoreHarnessInit /\ [][StoreNext]_vars

\* ------------------------------------------------------- main.py: extractor
\* and filter

\* ".pdf", the suffix get_pdf_links tests the path for.
PdfSuffix == <<".", "p", "d", "f">>

\* SCHEDULE_72HR_REGEX = [re.compile(r"72hr", re.IGNORECASE)]
SCHEDULE_72HR_REGEX == <<[pattern |-> <<"7", "2", "h", "r">>, ignorecase |-> TRUE]>>

\* Whether text[i:] starts with the (literal) pattern.
MatchAt(pattern, text, i) ==
    /\ i + Len(pattern.pattern) - 1 <= Len(text)
    /\ \A j \in 1..Len(pattern.pattern) :
         IF pattern.ignorecase
         THEN Lower(text[i + j - 1]) = Lower(pattern.pattern[j])
         ELSE text[i + j - 1] = pattern.pattern[j]

\* pattern.match(text): a match at the start of the string only.
match(pattern, text) == MatchAt(pattern, text, 1)

\* pattern.search(text): a match anywhere in the string.
search(pattern, text) == \E i \in 1..Len(text) : MatchAt(pattern, text, i)

\* filter_list(data, patterns)
filter_list(data, patterns) ==
    SelectSeq(data, LAMBDA text :
                      \E k \in 1..Len(patterns) : search(patterns[k], text))

\* httpx's Response.is_success, which raise_for_status() tests.
IsSuccess(status) == status \in 200..299

\* One anchor of the loop: skipped without an href; the loop ends when
\* urlparse raises on the href; the joined url is appended when the href's own
\* path ends in ".pdf".
RECURSIVE ScanAnchors(_, _, _)
ScanAnchor(url, link, rest, found) ==
    IF ~link.has_href THEN ScanAnchors(url, rest, found)
    ELSE The({ IF parsed.raises THEN found
               ELSE IF EndsWith(parsed.path, PdfSuffix)
               THEN The({ ScanAnchors(url, rest, more)
                          : more \in {Append(found, urljoin(url, link.href))} })
               ELSE ScanAnchors(url, rest, found)
               : parsed \in {urlsplit(link.href, <<>>)} })

\* The for loop of get_pdf_links over soup.find_all("a", href=True): the
\* links found.
ScanAnchors(url, anchors, found) ==
    IF anchors = <<>> THEN found
    ELSE The({ ScanAnchor(url, v.link, v.rest, found)
               : v \in {[link |-> Head(anchors), rest |-> Tail(anchors)]} })

\* get_pdf_links(url, **kwargs): the exception it lets out ("none" when it
\* returns) and the list it returns. kwargs is the set of keyword names given.
get_pdf_links(url, kwargs, response) ==
    IF "headers" \notin kwargs
    THEN [raised |-> "KeyError", value |-> <<>>]
    ELSE IF response.error # "none" THEN [raised |-> "none", value |-> <<>>]
    ELSE IF ~IsSuccess(response.status) THEN [raised |-> "none", value |-> <<>>]
    ELSE [raised |-> "none",
          value |-> ScanAnchors(url, response.anchors, <<>>)]

\* ---- inputs of the extractor

\* The fixed target page of main.py (shortened), and a page served at a url
\* whose own path ends in .pdf.
PageUrls ==
    { <<"h", "t", "t", "p", ":", "/", "/", "h", "/", "d", "/">>,
      <<"h", "t", "t", "p", ":", "/", "/", "h", "/", "x", ".", "p", "d", "f",
        "?", "m">> }

\* <a href="a.pdf">, <a href="/x/b.PDF">, <a href="c.html">, <a>,
\* <a href="72hr.pdf">, <a href="s.pdf?72HR">, <a href="?p">, <a href="//[">
AnchorPool ==
    { [has_href |-> TRUE, href |-> <<"a", ".", "p", "d", "f">>],
      [has_href |-> TRUE, href |-> <<"/", "x", "/", "b", ".", "P", "D", "F">>],
      [has_href |-> TRUE, href |-> <<"c", ".", "h", "t", "m", "l">>],
      [has_href |-> FALSE, href |-> <<>>],
      [has_href |-> TRUE, href |-> <<"7", "2", "h", "r", ".", "p", "d", "f">>],
      [has_href |-> TRUE,
       href |-> <<"s", ".", "p", "d", "f", "?", "7", "2", "H", "R">>],
      [has_href |-> TRUE, href |-> <<"?", "p">>],
      [has_href |-> TRUE, href |-> <<"/", "/", "[">>] }

\* Sequences over S of length at most n.
SeqUpTo(S, n) == UNION {[1..k -> S] : k \in 0..n}

\* What the request of get_pdf_links can meet: a transport error
\* (httpx.RequestError), another exception, or a response with a status.
FetchErrors == {"none", "ConnectError", "ReadTimeout", "Unexpected"}
Responses ==
    [error : {"none"}, status : {200, 404, 500},
     anchors : SeqUpTo(AnchorPool, MaxAnchors)]
    \cup [error : FetchErrors \ {"none"}, status : {0}, anchors : {<<>>}]

\* The keyword arguments a caller can give.
KwargsPool == {{}, {"headers"}, {"headers", "timeout"}}

LinksInit ==
    /\ StoreInit
    /\ env = "unset"
    /\ lx_in \in [url : PageUrls, kwargs : KwargsPool, response : Responses]
    /\ lx_out = NotCalled
    /\ dl_in = <<>>
    /\ dl_out = NotCalled
    /\ files = {}
    /\ RunIdle

CallGetPdfLinks ==
    /\ lx_out = NotCalled
    /\ lx_out' = get_pdf_links(lx_in.url, lx_in.kwargs, lx_in.response)
    /\ UNCHANGED <<storeVars, lx_in, dlVars, files, runVars>>

LinksNext == CallGetPdfLinks

SpecLinks == LinksInit /\ [][LinksNext]_vars

\* ------------------------------------------------------- main.py: downloader
\* and utils.py: hasher

\* The "no result" value of download_pdf.
None == [some |-> FALSE, dir |-> "", uuid |-> 0]

\* f"{AppSettings.DOWNLOAD_DIR.value}/{uuid.uuid4()}.pdf"
SavePath(uuid) == [some |-> TRUE, dir |-> DOWNLOAD_DIR, uuid |-> uuid]

\* hashlib.sha256(pdf_content).hexdigest(): one digest per content.
get_pdf_hash(pdf_content) == <<"sha256">> \o pdf_content

\* Nothing was written at the save path.
NoWrite == [written |-> FALSE, data |-> <<>>]

\* download_pdf(url, save_path, **kwargs): the exception it lets out ("none"
\* when it returns), the value it returns, and what it left at save_path.
\* fetch says what the request meets: fault "ConnectError" or "Unexpected"
\* before a response, a status, then "makedirs" or "open" failing (OSError),
\* or "ReadError" / "write" after cut chunks of the body were written.
download_pdf(url, save_path, kwargs, fetch) ==
    IF "headers" \notin kwargs
    THEN [raised |-> "KeyError", value |-> None, left |-> NoWrite]
    ELSE IF "timeout" \in kwargs \/ fetch.fault \in {"ConnectError", "Unexpected"}
    THEN [raised |-> "none", value |-> None, left |-> NoWrite]
    ELSE IF ~IsSuccess(fetch.status)
    THEN [raised |-> "none", value |-> None, left |-> NoWrite]
    ELSE IF fetch.fault \in {"makedirs", "open"}
    THEN [raised |-> "none", value |-> None, left |-> NoWrite]
    ELSE IF fetch.fault \in {"ReadError", "write"}
    THEN [raised |-> "none", value |-> None,
          left |-> [written |-> TRUE, data |-> Upto(fetch.body, fetch.cut)]]
    ELSE [raised |-> "none", value |-> save_path,
          left |-> [written |-> TRUE, data |-> fetch.body]]

\* The files after a download_pdf call.
WriteFile(fs, save_path, left) ==
    IF left.written
    THEN {f \in fs : f.path # save_path} \cup {[path |-> save_path, data |-> left.data]}
    ELSE fs

\* ---- inputs of the downloader

\* Response bodies, as sequences of the chunks iter_bytes yields.
Bodies == {<<"A">>, <<"A", "B">>}

\* What the request of download_pdf can meet.
DownloadFetches ==
    [fault : {"none"}, status : {200, 404, 500}, body : Bodies, cut : {0}]
    \cup [fault : {"ConnectError", "Unexpected", "makedirs", "open"},
          status : {200}, body : {<<"A">>}, cut : {0}]
    \cup {f \in [fault : {"ReadError", "write"}, status : {200}, body : Bodies,
                 cut : 0..1] : f.cut < Len(f.body)}

\* Links download_pdf is called with in the harness.
DownloadUrls ==
    { <<"h", "t", "t", "p", ":", "/", "/", "h", "/", "d", "/",
        "7", "2", "h", "r", ".", "p", "d", "f">>,
      <<"h", "t", "t", "p", ":", "/", "/", "h", "/", "d", "/",
        "s", ".", "p", "d", "f", "?", "7", "2", "H", "R">> }

DownloadInit ==
    /\ StoreInit
    /\ env = "unset"
    /\ lx_in = [url |-> <<>>, kwargs |-> {}, response |-> <<>>]
    /\ lx_out = NotCalled
    /\ dl_in \in [url : DownloadUrls, save_path : {SavePath(1)},
                  kwargs : KwargsPool, fetch : DownloadFetches]
    /\ dl_out = NotCalled
    /\ files = {}
    /\ RunIdle

CallDownloadPdf ==
    /\ dl_out = NotCalled
    /\ LET r == download_pdf(dl_in.url, dl_in.save_path, dl_in.kwargs, dl_in.fetch)
       IN /\ dl_out' = [raised |-> r.raised, value |-> r.value]
          /\ files' = WriteFile(files, dl_in.save_path, r.left)
    /\ UNCHANGED <<storeVars, linkVars, dl_in, runVars>>

DownloadNext == CallDownloadPdf

SpecDownload == DownloadInit /\ [][DownloadNext]_vars

\* ------------------------------------------------------- main.py: __main__

\* target_url (shortened to the model's alphabet).
TargetUrl == <<"h", "t", "t", "p", ":", "/", "/", "h", "/", "d", "/">>

\* headers=HEADERS: the keyword arguments main.py gives both calls.
MainKwargs == {"headers"}

\* Environments a run can start in.
RunEnvChoices == {"unset", "other.db"}

\* Anchors the target page can hold in a run: <a href="72hr.pdf">,
\* <a href="s.pdf?72HR">, <a href="a.pdf">, <a href="//[">.
RunAnchorPool ==
    { [has_href |-> TRUE, href |-> <<"7", "2", "h", "r", ".", "p", "d", "f">>],
      [has_href |-> TRUE,
       href |-> <<"s", ".", "p", "d", "f", "?", "7", "2", "H", "R">>],
      [has_href |-> TRUE, href |-> <<"a", ".", "p", "d", "f">>],
      [has_href |-> TRUE, href |-> <<"/", "/", "[">>] }

\* What the scrape of a run can meet.
RunResponses ==
    [error : {"none"}, status : {200},
     anchors : SeqUpTo(RunAnchorPool, MaxRunAnchors)]
    \cup [error : {"none"}, status : {500}, anchors : {<<>>}]
    \cup [error : {"ConnectError"}, status : {0}, anchors : {<<>>}]

\* What a download of a run can meet.
RunFetches ==
    [fault : {"none"}, status : {200}, body : Bodies, cut : {0}]
    \cup { [fault |-> "none", status |-> 404, body |-> <<"A">>, cut |-> 0],
           [fault |-> "ConnectError", status |-> 200, body |-> <<"A">>, cut |-> 0],
           [fault |-> "ReadError", status |-> 200, body |-> <<"A", "B">>, cut |-> 1] }

\* A fetch comprehension that keeps only the downloads that gave a path.
AppendIfSaved(results, value) ==
    IF value = None THEN results ELSE Append(results, value)

\* The list comprehension of the fetch stage: one entry per link, None
\* included.
AppendResult(results, value) == Append(results, value)

\* with open(pdf_path, mode="rb") as file: file.read()
ReadFile(fs, path) == (CHOOSE f \in fs : f.path = path).data

RunInit ==
    /\ StoreInit
    /\ env \in RunEnvChoices
    /\ lx_in = [url |-> <<>>, kwargs |-> {}, response |-> <<>>]
    /\ lx_out = NotCalled
    /\ dl_in = <<>>
    /\ dl_out = NotCalled
    /\ files = {}
    /\ pc = "setup"
    /\ pdf_links = <<>>
    /\ pdf_72hr_links = <<>>
    /\ pdfs_72hrs = <<>>
    /\ idx = 0
    /\ fetched = <<>>
    /\ notes = <<>>
    /\ rows_at_start = {}

\* setup_database() and os.makedirs(DOWNLOAD_DIR, exist_ok=True)
MainSetup ==
    /\ pc = "setup"
    /\ dbs' = setup_database(dbs)
    /\ setup_done' = TRUE
    /\ pc' = "scrape"
    /\ UNCHANGED <<env, now, procs, call, firstAdd, linkVars, dlVars, files,
                   pdf_links, pdf_72hr_links, pdfs_72hrs, idx, fetched, notes,
                   rows_at_start>>

\* pdf_links = get_pdf_links(target_url, headers=HEADERS)
MainScrape ==
    /\ pc = "scrape"
    /\ \E response \in RunResponses :
         /\ lx_in' = [url |-> TargetUrl, kwargs |-> MainKwargs,
                      response |-> response]
         /\ lx_out' = get_pdf_links(TargetUrl, MainKwargs, response)
         /\ pdf_links' = get_pdf_links(TargetUrl, MainKwargs, response).value
    /\ pc' = "filter"
    /\ UNCHANGED <<storeVars, dlVars, files, pdf_72hr_links, pdfs_72hrs, idx,
                   fetched, notes, rows_at_start>>

\* pdf_72hr_links = filter_list(pdf_links, SCHEDULE_72HR_REGEX)
MainFilter ==
    /\ pc = "filter"
    /\ pdf_72hr_links' = filter_list(pdf_links, SCHEDULE_72HR_REGEX)
    /\ idx' = 1
    /\ pc' = "fetch"
    /\ UNCHANGED <<storeVars, linkVars, dlVars, files, pdf_links, pdfs_72hrs,
                   fetched, notes, rows_at_start>>

\* One element of the comprehension: download_pdf(pdf_link, <fresh path>,
\* headers=HEADERS).
MainFetch ==
    /\ pc = "fetch"
    /\ idx <= Len(pdf_72hr_links)
    /\ \E fetch \in RunFetches :
         LET save_path == SavePath(Len(fetched) + 1)
             r == download_pdf(pdf_72hr_links[idx], save_path, MainKwargs, fetch)
         IN /\ dl_in' = [url |-> pdf_72hr_links[idx], save_path |-> save_path,
                         kwargs |-> MainKwargs, fetch |-> fetch]
            /\ dl_out' = [raised |-> r.raised, value |-> r.value]
            /\ files' = WriteFile(files, save_path, r.left)
            /\ pdfs_72hrs' = AppendResult(pdfs_72hrs, r.value)
            /\ fetched' = Append(fetched, [url |-> pdf_72hr_links[idx],
                                           save_path |-> save_path,
                                           value |-> r.value])
    /\ idx' = idx + 1
    /\ UNCHANGED <<storeVars, linkVars, pc, pdf_links, pdf_72hr_links, notes,
                   rows_at_start>>

\* The comprehension is exhausted: on to the store loop.
MainFetchEnd ==
    /\ pc = "fetch"
    /\ idx > Len(pdf_72hr_links)
    /\ idx' = 1
    /\ pc' = "store"
    /\ UNCHANGED <<storeVars, linkVars, dlVars, files, pdf_links,
                   pdf_72hr_links, pdfs_72hrs, fetched, notes, rows_at_start>>

\* One iteration of: for pdf_path, pdf_url in zip(pdfs_72hrs, pdf_72hr_links,
\* strict=True).
MainStore ==
    /\ pc = "store"
    /\ idx <= Len(pdfs_72hrs)
    /\ idx <= Len(pdf_72hr_links)
    /\ LET pdf_path == pdfs_72hrs[idx]
           pdf_url == pdf_72hr_links[idx]
           pdf_hash == get_pdf_hash(ReadFile(files, pdf_path))
           exists == hash_exists(dbs, pdf_hash)
       IN IF pdf_path = None
          THEN /\ idx' = idx + 1
               /\ UNCHANGED <<dbs, now, pc, notes>>
          ELSE IF exists = "OperationalError"
          THEN /\ pc' = "aborted"
               /\ notes' = Append(notes, [i |-> idx, hash |-> pdf_hash,
                                          url |-> pdf_url, log |-> exists])
               /\ UNCHANGED <<dbs, now, idx>>
          ELSE IF exists = "False"
          THEN /\ dbs' = add_hash(dbs, pdf_hash, pdf_url, now)
               /\ now' = now + 1
               /\ notes' = Append(notes, [i |-> idx, hash |-> pdf_hash,
                                          url |-> pdf_url, log |-> "new"])
               /\ idx' = idx + 1
               /\ pc' = pc
          ELSE /\ notes' = Append(notes, [i |-> idx, hash |-> pdf_hash,
                                          url |-> pdf_url, log |-> "seen"])
               /\ idx' = idx + 1
               /\ UNCHANGED <<dbs, now, pc>>
    /\ UNCHANGED <<env, setup_done, procs, call, firstAdd, linkVars, dlVars,
                   files, pdf_links, pdf_72hr_links, pdfs_72hrs, fetched,
                   rows_at_start>>

\* zip(..., strict=True) runs out: the end of the run, or ValueError when one
\* list is longer than the other.
MainStoreEnd ==
    /\ pc = "store"
    /\ idx > Len(pdfs_72hrs) \/ idx > Len(pdf_72hr_links)
    /\ pc' = IF Len(pdfs_72hrs) = Len(pdf_72hr_links) THEN "done" ELSE "aborted"
    /\ UNCHANGED <<storeVars, linkVars, dlVars, files, pdf_links,
                   pdf_72hr_links, pdfs_72hrs, idx, fetched, notes,
                   rows_at_start>>

\* The next run: a new process, with its own environment; ssa.db and the
\* other database files stay.
NextRun ==
    /\ pc \in {"done", "aborted"}
    /\ procs < MaxRuns
    /\ procs' = procs + 1
    /\ \E e \in RunEnvChoices : env' = e
    /\ setup_done' = FALSE
    /\ lx_in' = [url |-> <<>>, kwargs |-> {}, response |-> <<>>]
    /\ lx_out' = NotCalled
    /\ dl_in' = <<>>
    /\ dl_out' = NotCalled
    /\ files' = {}
    /\ pc' = "setup"
    /\ pdf_links' = <<>>
    /\ pdf_72hr_links' = <<>>
    /\ pdfs_72hrs' = <<>>
    /\ idx' = 0
    /\ fetched' = <<>>
    /\ notes' = <<>>
    /\ rows_at_start' = dbs[DB_FILE].rows
    /\ UNCHANGED <<dbs, now, call, firstAdd>>

Next ==
    \/ MainSetup
    \/ MainScrape
    \/ MainFilter
    \/ MainFetch
    \/ MainFetchEnd
    \/ MainStore
    \/ MainStoreEnd
    \/ NextRun

Spec == RunInit /\ [][Next]_vars

\* The runs in which the environment never names another database file.
DefaultEnvInit == RunInit /\ env = "unset"
DefaultEnvNext == Next /\ env' = "unset"
SpecDefaultEnv == DefaultEnvInit /\ [][DefaultEnvNext]_vars

\* ================================================================ claims

\* C1: the store holds at most one record per hash; each record carries the
\* url and the time of the first completed add_hash of its hash; and an
\* add_hash of a hash that was added before returns normally and leaves every
\* record as it was.
C1_FirstInsertWins ==
    /\ \A f \in DbFiles : \A r1, r2 \in dbs[f].rows :
         r1.hash = r2.hash => r1 = r2
    /\ \A r \in dbs[DB_FILE].rows :
         firstAdd[r.hash] = [url |-> r.source_url, time |-> r.first_seen_utc]
    /\ (call.op = "add_hash" /\ call.prior) =>
         /\ call.result = "None"
         /\ dbs[DB_FILE].rows = call.before

\* A second add_hash of a stored hash, made with another url than the first.
C1_Witness ==
    /\ call.op = "add_hash"
    /\ call.prior
    /\ call.result = "None"
    /\ call.url # firstAdd[call.hash].url
    /\ \E r \in dbs[DB_FILE].rows : r.hash = call.hash

\* C2: after setup_database() has returned, under every environment, neither
\* hash_exists nor add_hash fails for a missing store or table, and
\* hash_exists(h) answers whether an add_hash(h, _) has been performed.
C2_StoreReadyAfterSetup ==
    call.op \in {"hash_exists", "add_hash"} =>
        /\ call.result # "OperationalError"
        /\ call.op = "hash_exists" =>
             call.result = (IF call.prior THEN "True" ELSE "False")

\* The anchors get_pdf_links is claimed to keep: those with an href that,
\* resolved against the page url, has a path ending in ".pdf".
RECURSIVE C6_ClaimedLinks(_, _)
C6_ClaimedLinks(url, anchors) ==
    IF anchors = <<>> THEN <<>>
    ELSE LET a == Head(anchors)
             keep == /\ a.has_href
                     /\ ~urlsplit(a.href, <<>>).raises
                     /\ EndsWith(urlsplit(urljoin(url, a.href), <<>>).path,
                                 <<".", "p", "d", "f">>)
         IN (IF keep THEN <<urljoin(url, a.href)>> ELSE <<>>)
            \o C6_ClaimedLinks(url, Tail(anchors))

\* C5: get_pdf_links never raises to its caller, whatever options it is
\* given, and when the request fails, the status is an error or anything else
\* fails, it returns the empty list.
C5_ExtractorNeverRaises ==
    lx_out # NotCalled =>
        /\ lx_out.raised = "none"
        /\ (\/ lx_in.response.error # "none"
            \/ lx_in.response.status \notin 200..299
            \/ \E k \in 1..Len(lx_in.response.anchors) :
                 /\ lx_in.response.anchors[k].has_href
                 /\ urlsplit(lx_in.response.anchors[k].href, <<>>).raises)
           => lx_out.value = <<>>

\* C6: on a successful fetch get_pdf_links returns, in document order, the
\* resolved url of every anchor with an href whose resolved url has a path
\* ending in ".pdf", and nothing else.
C6_ResolvedPathSuffix ==
    (/\ lx_out # NotCalled
     /\ lx_out.raised = "none"
     /\ lx_in.response.error = "none"
     /\ lx_in.response.status \in 200..299)
    => lx_out.value = C6_ClaimedLinks(lx_in.url, lx_in.response.anchors)

\* C4: download_pdf never raises to its caller; it returns None when anything
\* fails, and returns save_path only with the whole body written there.
C4_DownloaderNeverRaises ==
    dl_out # NotCalled =>
        /\ dl_out.raised = "none"
        /\ (dl_in.fetch.fault # "none" \/ dl_in.fetch.status \notin 200..299)
             => dl_out.value = None
        /\ dl_out.value # None =>
             /\ dl_out.value = dl_in.save_path
             /\ [path |-> dl_in.save_path, data |-> dl_in.fetch.body] \in files

\* ---- the pipeline

\* The stages after the fetch comprehension has finished.
AfterFetch == pc \in {"store", "done", "aborted"}

\* The records of ssa.db.
Rows == dbs[DB_FILE].rows

\* The downloads of this run that returned their path.
Saved == {i \in 1..Len(fetched) : fetched[i].value # None}

\* C3: across runs a record is created once per content hash, when a
\* download with that hash is first processed, and never changed or deleted:
\* every step keeps every record of every database file and adds at most one,
\* whose hash was absent; a run that ends has a record for every hash it
\* downloaded; a run whose downloads all had their hash in the store at its
\* start inserts nothing; no hash has two records.
C3_RecordedOnce ==
    /\ [][/\ \A f \in DbFiles : dbs[f].rows \subseteq dbs'[f].rows
          /\ Cardinality(dbs'[DB_FILE].rows \ dbs[DB_FILE].rows) <= 1
          /\ \A r \in dbs'[DB_FILE].rows \ dbs[DB_FILE].rows :
               /\ \A old \in dbs[DB_FILE].rows : old.hash # r.hash
               /\ pc = "store"
               /\ r.hash = get_pdf_hash(ReadFile(files, pdfs_72hrs[idx]))]_vars
    /\ [](/\ \A r1, r2 \in Rows : r1.hash = r2.hash => r1 = r2
          /\ pc = "done" =>
               /\ \A i \in Saved : \E r \in Rows :
                    r.hash = get_pdf_hash(ReadFile(files, fetched[i].save_path))
               /\ (\A i \in Saved : \E r \in rows_at_start :
                     r.hash = get_pdf_hash(ReadFile(files, fetched[i].save_path)))
                  => Rows = rows_at_start)

\* A second run that downloads content recorded by the first and ends with
\* the store as it found it.
C3_Witness ==
    /\ pc = "done"
    /\ procs = 2
    /\ Saved # {}
    /\ rows_at_start # {}
    /\ Rows = rows_at_start

\* C7: after the fetch stage the download directory holds exactly one new
\* file per download_pdf call that returned its path, and no file at the
\* path of a call that returned None.
C7_OneFilePerSuccess ==
    AfterFetch =>
        /\ {f.path : f \in files} = {fetched[i].save_path : i \in Saved}
        /\ \A i \in 1..Len(fetched) :
             Cardinality({f \in files : f.path = fetched[i].save_path})
               = (IF i \in Saved THEN 1 ELSE 0)

\* "72hr" occurs somewhere in the text, in any letter case.
C8_Has72hr(text) ==
    \E i \in 1..(Len(text) - 3) :
        /\ text[i] = "7"
        /\ text[i + 1] = "2"
        /\ text[i + 2] \in {"h", "H"}
        /\ text[i + 3] \in {"r", "R"}

\* out is data restricted to its entries holding "72hr", in data's order.
C8_IsMatchingSubsequence(out, data) ==
    LET M == {i \in 1..Len(data) : C8_Has72hr(data[i])} IN
    /\ Len(out) = Cardinality(M)
    /\ \A k \in 1..Len(out) :
         out[k] = data[CHOOSE i \in M : Cardinality({j \in M : j <= i}) = k]

\* C8: filter_list keeps, in order, the links holding "72hr" in any case, and
\* download_pdf is called once for each of them, in that order, and for no
\* other link.
C8_FilterThenFetchInOrder ==
    /\ pc \in {"fetch", "store", "done", "aborted"} =>
         C8_IsMatchingSubsequence(pdf_72hr_links, pdf_links)
    /\ pc = "fetch" =>
         /\ Len(fetched) = idx - 1
         /\ Len(fetched) <= Len(pdf_72hr_links)
    /\ AfterFetch =>
         C8_IsMatchingSubsequence([i \in 1..Len(fetched) |-> fetched[i].url],
                                  pdf_links)

\* A finished run whose page had links with and without "72hr".
C8_Witness ==
    /\ pc = "done"
    /\ Len(fetched) >= 1
    /\ Len(fetched) < Len(pdf_links)
    /\ \E i \in 1..Len(pdf_links) : ~C8_Has72hr(pdf_links[i])

\* C9: the results are as many as the filtered links, result i is what the
\* download of link i returned, and every record inserted in the run carries
\* the url a saved file with that hash was downloaded from.
C9_ResultsAligned ==
    AfterFetch =>
        /\ Len(pdfs_72hrs) = Len(pdf_72hr_links)
        /\ Len(fetched) = Len(pdf_72hr_links)
        /\ \A i \in 1..Len(pdfs_72hrs) :
             /\ fetched[i].url = pdf_72hr_links[i]
             /\ fetched[i].value = pdfs_72hrs[i]
        /\ \A r \in Rows \ rows_at_start :
             \E i \in Saved :
                /\ fetched[i].url = r.source_url
                /\ get_pdf_hash(ReadFile(files, fetched[i].save_path)) = r.hash

\* A finished run in which the first download failed, the second succeeded
\* on another link, and the second one's content was recorded.
C9_Witness ==
    /\ pc = "done"
    /\ Len(pdfs_72hrs) = 2
    /\ pdfs_72hrs[1] = None
    /\ pdfs_72hrs[2] # None
    /\ pdf_72hr_links[1] # pdf_72hr_links[2]
    /\ \E r \in Rows \ rows_at_start : r.source_url = pdf_72hr_links[2]

\* Whether the hash of note n was in the store when its item was handled: at
\* the start of the run, or inserted for an earlier item.
C10_PresentBefore(n) ==
    \/ \E r \in rows_at_start : r.hash = notes[n].hash
    \/ \E m \in 1..(n - 1) : notes[m].hash = notes[n].hash

\* C10: the run always reaches its end; a link whose download returned None
\* is skipped without any hashing, query, insert or notification; every
\* other link is hashed and then inserted and reported new when its hash was
\* absent, or reported seen, with no insert, when it was present.
C10_RunNeverAborts ==
    /\ pc # "aborted"
    /\ \A n \in 1..Len(notes) :
         /\ pdfs_72hrs[notes[n].i] # None
         /\ notes[n].hash = get_pdf_hash(ReadFile(files, pdfs_72hrs[notes[n].i]))
         /\ notes[n].log = (IF C10_PresentBefore(n) THEN "seen" ELSE "new")
         /\ notes[n].log = "new" =>
              \E r \in Rows \ rows_at_start :
                 /\ r.hash = notes[n].hash
                 /\ r.source_url = pdf_72hr_links[notes[n].i]
    /\ Cardinality(Rows \ rows_at_start)
         = Cardinality({n \in 1..Len(notes) : notes[n].log = "new"})
    /\ pc = "done" =>
         /\ Len(notes) = Cardinality(Saved)
         /\ \A i \in Saved : \E n \in 1..Len(notes) : notes[n].i = i

====
